---- MODULE Spec2Model ----
(***************************************************************************)
(* Bifilar-Coil Placement.py: the on-axis field of two matched coils and   *)
(* the slider/reset controller that recomputes the displayed curve.        *)
(*                                                                         *)
(* Numbers are binary floating-point values with a significand of          *)
(* Precision bits and round-to-nearest-even after every operation, as the  *)
(* Python floats and NumPy float64 arrays of the program are (there with   *)
(* 53 bits).  A value is the record [m, e] standing for m * 2^e, kept      *)
(* canonical: m = 0 and e = 0, or 2^(Precision-1) <= |m| < 2^Precision.    *)
(* The exponent is unbounded: overflow to infinity and underflow to        *)
(* subnormals (magnitudes beyond about 1e+-150 in the program) are outside *)
(* the model.  Drawing (relim, autoscale_view, draw_idle) is not modelled. *)
(***************************************************************************)
EXTENDS Integers, Sequences, FiniteSets, TLC

\* Bits of the significand (53 in the program's float64).
Precision == 6
\* Number of samples of the session grid (1000 in the program).
NumPoints == 6
\* Largest whole turn count the function is applied to outside the controller.
MaxTurns == 3

----------------------------------------------------------------------------
\* Floating-point arithmetic

RECURSIVE Pow2Rec(_)
Pow2Rec(n) == IF n <= 0 THEN 1 ELSE 2 * Pow2Rec(n - 1)

Pow2Table == [n \in 0..30 |-> Pow2Rec(n)]

\* 2^n for 0 <= n <= 30
Pow2(n) == Pow2Table[n]

\* The significands of canonical values lie in MantMin..(MantLim - 1).
MantMin == Pow2Rec(Precision - 1)
MantLim == Pow2Rec(Precision)

Abs(n) == IF n < 0 THEN -n ELSE n

Sgn(n) == IF n < 0 THEN -1 ELSE 1

Zero == [m |-> 0, e |-> 0]

\* Shift a non-zero magnitude left until it has Precision bits (exact).
RECURSIVE Norm(_, _)
Norm(a, e) ==
    IF a = 0 THEN Zero
    ELSE IF a < MantMin THEN Norm(2 * a, e - 1)
    ELSE [m |-> a, e |-> e]

\* Shift a magnitude right until it has at most Precision + 1 bits,
\* remembering in st whether a non-zero bit was shifted out.
RECURSIVE Shrink(_, _, _)
Shrink(a, e, st) ==
    IF a >= 2 * MantLim
    THEN Shrink(a \div 2, e + 1, st \/ (a % 2 = 1))
    ELSE [a |-> a, e |-> e, st |-> st]

\* The float nearest to sg * (a + fraction) * 2^e, ties to even; st says
\* that the fraction below the last bit of a is non-zero.
Round(sg, a, e, st) ==
    IF a = 0 THEN Zero
    ELSE LET s == Shrink(a, e, st) IN
         IF s.a < MantLim
         THEN LET n == Norm(s.a, s.e) IN [m |-> sg * n.m, e |-> n.e]
         ELSE LET rb == s.a % 2
                  q0 == s.a \div 2
                  q  == IF rb = 1 /\ (s.st \/ q0 % 2 = 1) THEN q0 + 1 ELSE q0
              IN IF q = MantLim
                 THEN [m |-> sg * (q \div 2), e |-> s.e + 2]
                 ELSE [m |-> sg * q, e |-> s.e + 1]

FromInt(n) == Round(Sgn(n), Abs(n), 0, FALSE)

FNeg(x) == [m |-> -x.m, e |-> x.e]

FAbs(x) == [m |-> Abs(x.m), e |-> x.e]

\* x + y, correctly rounded.  When the exponents are more than Precision + 1
\* apart the smaller operand is below a quarter of the last bit of the larger.
FAdd(x, y) ==
    IF x.m = 0 THEN y
    ELSE IF y.m = 0 THEN x
    ELSE LET hi == IF x.e >= y.e THEN x ELSE y
             lo == IF x.e >= y.e THEN y ELSE x
             d  == hi.e - lo.e
         IN IF d >= Precision + 2 THEN hi
            ELSE LET n == hi.m * Pow2(d) + lo.m
                 IN Round(Sgn(n), Abs(n), lo.e, FALSE)

FSub(x, y) == FAdd(x, FNeg(y))

FMul(x, y) ==
    LET n == x.m * y.m IN Round(Sgn(n), Abs(n), x.e + y.e, FALSE)

\* x / y for y # 0, correctly rounded.
FDiv(x, y) ==
    IF x.m = 0 THEN Zero
    ELSE LET a == Abs(x.m) * 4 * MantLim
             b == Abs(y.m)
         IN Round(Sgn(x.m) * Sgn(y.m), a \div b, x.e - y.e - (Precision + 2),
                  a % b # 0)

RECURSIVE Isqrt(_)
Isqrt(v) ==
    IF v < 2 THEN v
    ELSE LET r == 2 * Isqrt(v \div 4)
         IN IF (r + 1) * (r + 1) <= v THEN r + 1 ELSE r

\* x ** 1.5 for x >= 0, correctly rounded: the square root of x cubed.
FPow15(x) ==
    IF x.m = 0 THEN Zero
    ELSE LET c == x.m * x.m * x.m
             E == 3 * x.e
             k == E % 2
             v == c * Pow2(k)
             q == Isqrt(v)
         IN Round(1, q, (E - k) \div 2, q * q # v)

\* x ** 2
FSquare(x) == FMul(x, x)

\* The long division of r by d, r < d, carried on for n more bits.
RECURSIVE LongDiv(_, _, _, _)
LongDiv(q, r, d, n) ==
    IF n = 0 THEN [q |-> q, r |-> r]
    ELSE IF 2 * r >= d THEN LongDiv(2 * q + 1, 2 * r - d, d, n - 1)
    ELSE LongDiv(2 * q, 2 * r, d, n - 1)

RECURSIVE LitScaled(_, _, _)
LitScaled(n, d, e) ==
    IF n >= 2 * d THEN LitScaled(n, 2 * d, e + 1)
    ELSE IF n < d THEN LitScaled(2 * n, d, e - 1)
    ELSE LET l == LongDiv(1, n - d, d, Precision + 1)
         IN Round(1, l.q, e - (Precision + 1), l.r # 0)

\* The float a decimal literal n/d (n, d > 0) denotes.
Lit(n, d) == LitScaled(n, d, 0)

\* Rounding to the nearest whole number in the place of int(x).
FIntNearest(x) ==
    LET sh == Pow2(IF x.e >= 0 THEN 0 ELSE -x.e)
        q  == Abs(x.m) \div sh
        r  == Abs(x.m) % sh
    IN IF x.e >= 0 THEN x.m * Pow2(x.e)
       ELSE Sgn(x.m) * (IF 2 * r > sh \/ (2 * r = sh /\ q % 2 = 1)
                        THEN q + 1 ELSE q)

\* int(x): truncation toward zero.
FInt(x) ==
    IF x.e >= 0 THEN x.m * Pow2(x.e)
    ELSE Sgn(x.m) * (Abs(x.m) \div Pow2(-x.e))

\* Exact comparisons of two floats.
FLess(x, y) ==
    IF x.m = 0 THEN y.m > 0
    ELSE IF y.m = 0 THEN x.m < 0
    ELSE IF Sgn(x.m) # Sgn(y.m) THEN x.m < 0
    ELSE IF x.e = y.e THEN x.m < y.m
    ELSE IF x.m > 0 THEN x.e < y.e
    ELSE x.e > y.e

FLeq(x, y) == x = y \/ FLess(x, y)

\* round(x): the nearest integer, ties to even.
FRint(x) ==
    IF x.e >= 0 THEN x.m * Pow2(x.e)
    ELSE LET sh == Pow2(-x.e)
             q  == Abs(x.m) \div sh
             r  == Abs(x.m) % sh
         IN Sgn(x.m) * (IF 2 * r > sh \/ (2 * r = sh /\ q % 2 = 1)
                        THEN q + 1 ELSE q)

----------------------------------------------------------------------------
\* The field model

Two == FromInt(2)

np_pi == Lit(31415927, 10000000)

\* mu_0 = 4 * np.pi * 1e-7
mu_0 == FMul(FMul(FromInt(4), np_pi), Lit(1, 10000000))

\* The exponent written on the current instead of the radius:
\* mu_0 * I**2 * R
loop_field_current_squared(I, R, z0, zk) ==
    FDiv(FMul(FMul(mu_0, FSquare(I)), R),
         FMul(Two, FPow15(FAdd(FSquare(R), FSquare(FSub(zk, z0))))))

\* The denominator's parentheses left out: num / 2 * (...)**1.5
loop_field_unparenthesised(I, R, z0, zk) ==
    FMul(FDiv(FMul(FMul(mu_0, I), FSquare(R)), Two),
         FPow15(FAdd(FSquare(R), FSquare(FSub(zk, z0)))))

\* The single-loop field at one position zk.
loop_field(I, R, z0, zk) ==
    FDiv(FMul(FMul(mu_0, I), FSquare(R)),
         FMul(Two, FPow15(FAdd(FSquare(R), FSquare(FSub(zk, z0))))))

\* bz_from_loop applied to the array z: elementwise, from index k on.
RECURSIVE bz_from_loop_at(_, _, _, _, _)
bz_from_loop_at(I, R, z0, z, k) ==
    IF k > Len(z) THEN <<>>
    ELSE <<loop_field(I, R, z0, z[k])>> \o bz_from_loop_at(I, R, z0, z, k + 1)

bz_from_loop(I, R, z0, z) == bz_from_loop_at(I, R, z0, z, 1)

RECURSIVE zeros(_)
zeros(n) == IF n = 0 THEN <<>> ELSE <<Zero>> \o zeros(n - 1)

zeros_like(a) == zeros(Len(a))

\* bz += c on arrays, from index k on
RECURSIVE iadd_at(_, _, _)
iadd_at(bz, c, k) ==
    IF k > Len(bz) THEN <<>>
    ELSE <<FAdd(bz[k], c[k])>> \o iadd_at(bz, c, k + 1)

iadd(bz, c) == iadd_at(bz, c, 1)

\* The loop running one turn too many: range(int(turns) + 1).
RECURSIVE turn_loop_extra(_, _, _, _)
turn_loop_extra(bz, n, c1, c2) ==
    IF n < 0 THEN bz
    ELSE LET acc == iadd(iadd(bz, c1), c2)
         IN IF Len(acc) = Len(bz) THEN turn_loop_extra(acc, n - 1, c1, c2)
            ELSE acc

\* The for loop's body run n times on bz; c1 and c2 are the two coils'
\* contributions, which the loop recomputes identically in every turn.
\* (The test on Len holds always: it has acc computed before the next turn.)
RECURSIVE turn_loop(_, _, _, _)
turn_loop(bz, n, c1, c2) ==
    IF n <= 0 THEN bz
    ELSE LET acc == iadd(iadd(bz, c1), c2)
         IN IF Len(acc) = Len(bz) THEN turn_loop(acc, n - 1, c1, c2) ELSE acc

\* The second coil placed at +spacing instead of +spacing/2.
total_bz_off_centre(z_range, spacing, turns, R, I) ==
    LET z1 == FDiv(FNeg(spacing), Two)
        z2 == spacing
        c1 == bz_from_loop(I, R, z1, z_range)
        c2 == bz_from_loop(I, R, z2, z_range)
        bz == turn_loop(zeros_like(z_range), FInt(turns), c1, c2)
    IN [bz |-> bz, z_range |-> z_range]

\* bz bound to the caller's grid array and zeroed in place instead of a
\* fresh zeros_like array: every bz += then writes into the grid, and
\* bz_from_loop reads what it holds by then.
RECURSIVE turn_loop_alias(_, _, _, _, _, _)
turn_loop_alias(bz, n, I, R, z1, z2) ==
    IF n <= 0 THEN bz
    ELSE LET a == iadd(bz, bz_from_loop(I, R, z1, bz))
             b == iadd(a, bz_from_loop(I, R, z2, a))
         IN IF Len(b) = Len(bz) THEN turn_loop_alias(b, n - 1, I, R, z1, z2)
            ELSE b

total_bz_alias(z_range, spacing, turns, R, I) ==
    LET z1 == FDiv(FNeg(spacing), Two)
        z2 == FDiv(spacing, Two)
        bz == turn_loop_alias(zeros_like(z_range), FInt(turns), I, R, z1, z2)
    IN [bz |-> bz, z_range |-> bz]

\* An array is passed by reference: a call returns the curve together with
\* the contents of the caller's grid array when the call has returned.
total_bz(z_range, spacing, turns, R, I) ==
    LET z1 == FDiv(FNeg(spacing), Two)
        z2 == FDiv(spacing, Two)
        c1 == bz_from_loop(I, R, z1, z_range)
        c2 == bz_from_loop(I, R, z2, z_range)
        bz == turn_loop(zeros_like(z_range), FInt(turns), c1, c2)
    IN [bz |-> bz, z_range |-> z_range]

\* arange(num) * step + start with the last sample overwritten by stop,
\* from index k on.
RECURSIVE linspace_at(_, _, _, _, _)
linspace_at(start, stop, step, num, k) ==
    IF k > num THEN <<>>
    ELSE <<IF k = num THEN stop
           ELSE FAdd(FMul(FromInt(k - 1), step), start)>>
         \o linspace_at(start, stop, step, num, k + 1)

\* np.linspace(start, stop, num)
linspace(start, stop, num) ==
    LET delta == FSub(stop, start)
        step  == FDiv(delta, FromInt(num - 1))
    IN linspace_at(start, stop, step, num, 1)

----------------------------------------------------------------------------
\* The controller

\* Initial parameter values
init_spacing == Lit(1, 10)
init_turns == FromInt(10)
init_radius == Lit(5, 100)
init_current == FromInt(1)

NoStep == Zero

\* Slider(ax, label, valmin, valmax, valinit=..., valstep=...)
spacing_cfg ==
    [valmin |-> Lit(1, 100), valmax |-> Lit(2, 10), valinit |-> init_spacing,
     valstep |-> NoStep]
turns_cfg ==
    [valmin |-> FromInt(1), valmax |-> FromInt(50), valinit |-> init_turns,
     valstep |-> FromInt(1)]
radius_cfg ==
    [valmin |-> Lit(1, 100), valmax |-> Lit(1, 10), valinit |-> init_radius,
     valstep |-> NoStep]
current_cfg ==
    [valmin |-> Lit(1, 10), valmax |-> FromInt(10), valinit |-> init_current,
     valstep |-> NoStep]

\* Slider._stepped_value: valmin + round((val - valmin) / valstep) * valstep
stepped_value(cfg, val) ==
    IF cfg.valstep = NoStep THEN val
    ELSE FAdd(cfg.valmin,
              FMul(FromInt(FRint(FDiv(FSub(val, cfg.valmin), cfg.valstep))),
                   cfg.valstep))

\* A slider that hands the pointer position on unchecked.
value_unchecked(cfg, val) == val

\* Slider._value_in_bounds: the position snapped to the step, then clipped
\* to [valmin, valmax].
value_in_bounds(cfg, val) ==
    LET v == stepped_value(cfg, val)
    IN IF FLeq(v, cfg.valmin) THEN cfg.valmin
       ELSE IF FLeq(cfg.valmax, v) THEN cfg.valmax
       ELSE v

\* Pointer positions a drag can report, inside and outside the slider's axis.
RawSpacing == {Zero, Lit(3, 10)}
RawTurns == {Zero, Lit(26, 10), FromInt(60)}
RawRadius == {Zero, Lit(8, 100)}
RawCurrent == {Lit(3, 10), FromInt(20)}

VARIABLES
    z,               \* the session grid (line 42)
    params,          \* the parameter snapshot (lines 43-48)
    bz,              \* the curve computed at start-up (line 51)
    field_line,      \* the y data of the displayed curve
    spacing_slider,  \* the four sliders' val
    turns_slider,
    radius_slider,
    current_slider,
    pc,              \* where the reset handler stands
    last,            \* the handler that completed last
    lastCall,        \* the latest call of total_bz by the controller
    resetCalls,      \* update calls made by the reset under way or just completed
    args,            \* a direct application of total_bz: its arguments,
    ret              \* and what it returned

gui == <<z, params, bz, field_line, spacing_slider, turns_slider,
         radius_slider, current_slider, pc, last, lastCall, resetCalls>>

fn == <<args, ret>>

vars == <<gui, fn>>

NoCall == [bz |-> <<>>, z_range |-> <<>>]

session_grid == linspace(FNeg(Lit(2, 10)), Lit(2, 10), NumPoints)

init_params ==
    [spacing |-> init_spacing, turns |-> init_turns, R |-> init_radius,
     I |-> init_current]

\* total_bz(z, **params)
call_total_bz(grid, p) == total_bz(grid, p.spacing, p.turns, p.R, p.I)

sliders_now(sp, tu, ra, cu) == [spacing |-> sp, turns |-> tu, R |-> ra, I |-> cu]

\* The module's top-level statements, lines 36-91.
GuiInit ==
    /\ z = session_grid
    /\ params = init_params
    /\ bz = call_total_bz(session_grid, init_params).bz
    /\ field_line = call_total_bz(session_grid, init_params).bz
    /\ spacing_slider = value_in_bounds(spacing_cfg, spacing_cfg.valinit)
    /\ turns_slider = value_in_bounds(turns_cfg, turns_cfg.valinit)
    /\ radius_slider = value_in_bounds(radius_cfg, radius_cfg.valinit)
    /\ current_slider = value_in_bounds(current_cfg, current_cfg.valinit)
    /\ pc = "idle"
    /\ last = "startup"
    /\ lastCall = [by |-> "startup", args |-> init_params, sliders |-> init_params]
    /\ resetCalls = 0

Init ==
    /\ GuiInit
    /\ args = [z_range |-> <<>>, spacing |-> Zero, turns |-> Zero, R |-> Zero,
               I |-> Zero]
    /\ ret = NoCall

\* update copying only three of the four entries.
update_params_stale(p, sp, tu, ra, cu) ==
    [p EXCEPT !.spacing = sp, !.R = ra, !.I = cu]

\* Lines 66-69 of update: params is overwritten from the four sliders.
update_params(p, sp, tu, ra, cu) ==
    [spacing |-> sp, turns |-> tu, R |-> ra, I |-> cu]

\* update(val), run by a slider whose val has just become what sp, tu, ra,
\* cu say.
update(sp, tu, ra, cu) ==
    LET p == update_params(params, sp, tu, ra, cu)
    IN \E new_bz \in {call_total_bz(z, p)} :
         /\ params' = p
         /\ field_line' = new_bz.bz
         /\ z' = new_bz.z_range
         /\ lastCall' = [by |-> "update", args |-> p,
                         sliders |-> sliders_now(sp, tu, ra, cu)]

\* Slider._update on a drag: set_val when the bounded value is a new one.
ChangeSpacing ==
    /\ pc = "idle"
    /\ \E raw \in RawSpacing :
         LET val == value_in_bounds(spacing_cfg, raw)
         IN /\ val # spacing_slider
            /\ spacing_slider' = val
            /\ update(val, turns_slider, radius_slider, current_slider)
    /\ last' = "slider"
    /\ resetCalls' = 0
    /\ UNCHANGED <<bz, turns_slider, radius_slider, current_slider, pc, fn>>

ChangeTurns ==
    /\ pc = "idle"
    /\ \E raw \in RawTurns :
         LET val == value_in_bounds(turns_cfg, raw)
         IN /\ val # turns_slider
            /\ turns_slider' = val
            /\ update(spacing_slider, val, radius_slider, current_slider)
    /\ last' = "slider"
    /\ resetCalls' = 0
    /\ UNCHANGED <<bz, spacing_slider, radius_slider, current_slider, pc, fn>>

ChangeRadius ==
    /\ pc = "idle"
    /\ \E raw \in RawRadius :
         LET val == value_in_bounds(radius_cfg, raw)
         IN /\ val # radius_slider
            /\ radius_slider' = val
            /\ update(spacing_slider, turns_slider, val, current_slider)
    /\ last' = "slider"
    /\ resetCalls' = 0
    /\ UNCHANGED <<bz, spacing_slider, turns_slider, current_slider, pc, fn>>

ChangeCurrent ==
    /\ pc = "idle"
    /\ \E raw \in RawCurrent :
         LET val == value_in_bounds(current_cfg, raw)
         IN /\ val # current_slider
            /\ current_slider' = val
            /\ update(spacing_slider, turns_slider, radius_slider, val)
    /\ last' = "slider"
    /\ resetCalls' = 0
    /\ UNCHANGED <<bz, spacing_slider, turns_slider, radius_slider, pc, fn>>

\* reset(event), one statement at a time.  Slider.reset calls set_val(valinit),
\* and with it update, only when val differs from valinit.
ResetSpacing ==
    /\ pc = "idle"
    /\ pc' = "reset_turns"
    /\ IF spacing_slider # spacing_cfg.valinit
       THEN /\ spacing_slider' = spacing_cfg.valinit
            /\ update(spacing_cfg.valinit, turns_slider, radius_slider,
                      current_slider)
            /\ resetCalls' = 1
       ELSE /\ resetCalls' = 0
            /\ UNCHANGED <<spacing_slider, params, field_line, z, lastCall>>
    /\ UNCHANGED <<bz, turns_slider, radius_slider, current_slider, last, fn>>

ResetTurns ==
    /\ pc = "reset_turns"
    /\ pc' = "reset_radius"
    /\ IF turns_slider # turns_cfg.valinit
       THEN /\ turns_slider' = turns_cfg.valinit
            /\ update(spacing_slider, turns_cfg.valinit, radius_slider,
                      current_slider)
            /\ resetCalls' = resetCalls + 1
       ELSE UNCHANGED <<turns_slider, params, field_line, z, lastCall,
                        resetCalls>>
    /\ UNCHANGED <<bz, spacing_slider, radius_slider, current_slider, last, fn>>

\* reset without its radius_slider.reset() statement.
ResetRadiusSkipped ==
    /\ pc = "reset_radius"
    /\ pc' = "reset_current"
    /\ UNCHANGED <<z, params, bz, field_line, spacing_slider, turns_slider,
                   radius_slider, current_slider, last, lastCall, resetCalls,
                   fn>>

ResetRadius ==
    /\ pc = "reset_radius"
    /\ pc' = "reset_current"
    /\ IF radius_slider # radius_cfg.valinit
       THEN /\ radius_slider' = radius_cfg.valinit
            /\ update(spacing_slider, turns_slider, radius_cfg.valinit,
                      current_slider)
            /\ resetCalls' = resetCalls + 1
       ELSE UNCHANGED <<radius_slider, params, field_line, z, lastCall,
                        resetCalls>>
    /\ UNCHANGED <<bz, spacing_slider, turns_slider, current_slider, last, fn>>

ResetCurrent ==
    /\ pc = "reset_current"
    /\ pc' = "idle"
    /\ last' = "reset"
    /\ IF current_slider # current_cfg.valinit
       THEN /\ current_slider' = current_cfg.valinit
            /\ update(spacing_slider, turns_slider, radius_slider,
                      current_cfg.valinit)
            /\ resetCalls' = resetCalls + 1
       ELSE UNCHANGED <<current_slider, params, field_line, z, lastCall,
                        resetCalls>>
    /\ UNCHANGED <<bz, spacing_slider, turns_slider, radius_slider, fn>>

Next ==
    \/ ChangeSpacing
    \/ ChangeTurns
    \/ ChangeRadius
    \/ ChangeCurrent
    \/ ResetSpacing
    \/ ResetTurns
    \/ ResetRadius
    \/ ResetCurrent

Spec == Init /\ [][Next]_vars

----------------------------------------------------------------------------
\* total_bz applied directly, to arguments inside and outside the sliders'
\* ranges

One == FromInt(1)

\* Positions z and -z, and the midpoint between the coils.
mirror_grid ==
    <<Zero, Lit(3, 100), FNeg(Lit(3, 100)), Lit(13, 100), FNeg(Lit(13, 100))>>

\* Neighbouring floating-point positions from 0.125 upwards.
RECURSIVE far_grid_at(_)
far_grid_at(k) ==
    IF k > NumPoints THEN <<>>
    ELSE <<[m |-> MantMin + k - 1, e |-> -(Precision + 2)]>>
         \o far_grid_at(k + 1)

far_grid == far_grid_at(1)

FnGrids == {session_grid, mirror_grid, far_grid}
FnSpacing == {Lit(1, 10), Lit(2, 10), Zero, FNeg(Lit(1, 10))}
FnTurns == {FromInt(n) : n \in -1..MaxTurns} \cup {Lit(1, 2), Lit(11, 4)}
FnRadius == {Lit(5, 100), Lit(1, 10), FNeg(Lit(5, 100))}
FnCurrent == {One, FNeg(One), Lit(3, 10)}

FnInit ==
    /\ GuiInit
    /\ args \in [z_range : FnGrids, spacing : FnSpacing, turns : FnTurns,
                 R : FnRadius, I : FnCurrent]
    /\ ret = NoCall

\* ret = total_bz(z_range, spacing, turns, R, I); the caller's grid array is
\* afterwards what the call left in it.
Call ==
    /\ ret = NoCall
    /\ \E r \in {total_bz(args.z_range, args.spacing, args.turns, args.R,
                          args.I)} :
         /\ ret' = r
         /\ args' = [args EXCEPT !.z_range = r.z_range]
    /\ UNCHANGED gui

FnNext == Call

FnSpec == FnInit /\ [][FnNext]_vars

----------------------------------------------------------------------------
\* Properties

Called == ret # NoCall

\* x is a whole number
IsWhole(x) == x.e >= 0 \/ Abs(x.m) % Pow2(-x.e) = 0

\* The turn counts and radii of the function's documented domain.
WholeTurns == IsWhole(args.turns) /\ FLeq(One, args.turns)

\* |x - y| <= k * 2^-Precision * |y|, decided exactly.  Values whose
\* exponents are more than 8 apart differ by more than any tolerance used
\* here (k < 2^Precision is required).
WithinRel(x, y, k) ==
    IF x = y THEN TRUE
    ELSE IF x.m = 0 \/ y.m = 0 THEN FALSE
    ELSE LET lo == IF x.e <= y.e THEN x.e ELSE y.e
         IN IF x.e - lo > 8 \/ y.e - lo > 8 THEN FALSE
            ELSE LET xs == x.m * Pow2(x.e - lo)
                     ys == y.m * Pow2(y.e - lo)
                 IN Abs(xs - ys) * MantLim <= k * Abs(ys)

\* a and b accumulated turn by turn, in the order of the loop.
RECURSIVE SumTurns(_, _, _)
SumTurns(n, a, b) ==
    IF n <= 0 THEN Zero ELSE FAdd(FAdd(SumTurns(n - 1, a, b), a), b)

\* The field of the coil at -s/2 and of the coil at +s/2, at position zk.
CoilMinus(zk) ==
    loop_field(args.I, args.R, FDiv(FNeg(args.spacing), Two), zk)
CoilPlus(zk) ==
    loop_field(args.I, args.R, FDiv(args.spacing, Two), zk)

\* mu0*R^2 / (2*(R^2 + (s/2)^2)^1.5) * 2
MidpointFormula ==
    FMul(FDiv(FMul(mu_0, FSquare(args.R)),
              FMul(Two, FPow15(FAdd(FSquare(args.R),
                                    FSquare(FDiv(args.spacing, Two)))))),
         Two)

C1_Shape ==
    /\ Len(ret.bz) = Len(args.z_range)
    /\ \A k \in 1..Len(args.z_range) :
         /\ ret.bz[k] = SumTurns(FInt(args.turns), CoilMinus(args.z_range[k]),
                                 CoilPlus(args.z_range[k]))
         /\ (args.z_range[k] = Zero /\ args.I = One /\ args.turns = One)
              => ret.bz[k] = MidpointFormula

\* N * (B(z_k; -s/2) + B(z_k; +s/2))
C1_Product(k) ==
    FMul(args.turns, FAdd(CoilMinus(args.z_range[k]), CoilPlus(args.z_range[k])))

\* C1 as stated: total_bz returns one value per grid point, in grid order,
\* the k-th being the sum over the N turns of the two coils' fields at z_k,
\* which is N * (B(z_k; -s/2) + B(z_k; +s/2)); at z = 0 with I = 1 and
\* N = 1 it is 2 * mu0*R^2 / (2*(R^2 + (s/2)^2)^1.5).
C1_AsStated ==
    (Called /\ WholeTurns /\ FLess(Zero, args.R)) =>
        /\ C1_Shape
        /\ \A k \in 1..Len(args.z_range) : ret.bz[k] = C1_Product(k)

\* C1 amended: as above, the k-th value being the two fields accumulated turn
\* by turn in the loop's order; it equals N * (B- + B+) for N = 1 and is
\* within (2N + 2) * 2^-Precision of it, relatively, for larger N.
C1_Accumulated ==
    (Called /\ WholeTurns /\ FLess(Zero, args.R)) =>
        /\ C1_Shape
        /\ \A k \in 1..Len(args.z_range) :
             /\ WithinRel(ret.bz[k], C1_Product(k), 2 * FInt(args.turns) + 2)
             /\ args.turns = One => ret.bz[k] = C1_Product(k)

C1_Witness ==
    /\ Called
    /\ args.turns = FromInt(3)
    /\ FLess(Zero, args.R)
    /\ args.z_range = mirror_grid
    /\ \E k \in 1..Len(args.z_range) : ret.bz[k] # C1_Product(k)

\* total_bz with turns = 1 on the same grid, spacing, radius and current.
SingleTurn ==
    total_bz(args.z_range, args.spacing, One, args.R, args.I).bz

\* C3 as stated: for whole N >= 1, total_bz with turns = N equals N times
\* total_bz with turns = 1 at every grid point.
C3_AsStated ==
    (Called /\ WholeTurns) =>
        \A k \in 1..Len(args.z_range) :
            ret.bz[k] = FMul(args.turns, SingleTurn[k])

\* C3 amended: total_bz with turns = N is within (2N + 2) * 2^-Precision,
\* relatively, of N times total_bz with turns = 1 at every grid point.
C3_WithinTolerance ==
    (Called /\ WholeTurns) =>
        \A k \in 1..Len(args.z_range) :
            WithinRel(ret.bz[k], FMul(args.turns, SingleTurn[k]),
                      2 * FInt(args.turns) + 2)

C3_Witness ==
    /\ Called
    /\ args.turns = FromInt(3)
    /\ args.z_range = session_grid
    /\ \E k \in 1..Len(args.z_range) :
         ret.bz[k] # FMul(args.turns, SingleTurn[k])

\* 8 * 2^-Precision * 0.2, the grid's end point scaled by a power of two.
GridTolerance ==
    LET stop == Lit(2, 10) IN [m |-> stop.m, e |-> stop.e + 3 - Precision]

IsSessionGrid == args.z_range = session_grid

Mirror(k) == Len(args.z_range) + 1 - k

\* C4 as stated: on the session grid -z_k is the sample at the mirror index
\* and the field there equals the field at z_k.
C4_AsStated ==
    (Called /\ WholeTurns /\ IsSessionGrid) =>
        \A k \in 1..Len(args.z_range) :
            /\ args.z_range[Mirror(k)] = FNeg(args.z_range[k])
            /\ ret.bz[Mirror(k)] = ret.bz[k]

\* C4 amended: the session grid's end points are exact mirrors and every
\* sample is within 8 * 2^-Precision * 0.2 of minus its mirror sample; at
\* any two positions z and -z the field is equal for one turn and within
\* 4N * 2^-Precision, relatively, for N turns.
C4_UpToRounding ==
    (Called /\ WholeTurns) =>
        /\ IsSessionGrid =>
             /\ args.z_range[Mirror(1)] = FNeg(args.z_range[1])
             /\ \A k \in 1..Len(args.z_range) :
                  FLeq(FAbs(FAdd(args.z_range[k], args.z_range[Mirror(k)])),
                       GridTolerance)
        /\ \A i, j \in 1..Len(args.z_range) :
             args.z_range[j] = FNeg(args.z_range[i]) =>
                 /\ WithinRel(ret.bz[i], ret.bz[j], 4 * FInt(args.turns))
                 /\ args.turns = One => ret.bz[i] = ret.bz[j]

C4_Witness ==
    /\ Called
    /\ IsSessionGrid
    /\ args.turns = One
    /\ FLess(Zero, args.R)
    /\ \E k \in 1..Len(args.z_range) :
         /\ args.z_range[Mirror(k)] # FNeg(args.z_range[k])
         /\ ret.bz[Mirror(k)] # ret.bz[k]

\* total_bz with the current doubled.
DoubledCurrent ==
    total_bz(args.z_range, args.spacing, args.turns, args.R,
             FMul(Two, args.I)).bz

C6_Domain ==
    /\ WholeTurns
    /\ FLess(Zero, args.spacing)
    /\ FLess(Zero, args.R)
    /\ args.I # Zero

\* z beyond max(R, s/2)
C6_Beyond(zk) ==
    FLess(args.R, zk) /\ FLess(FDiv(args.spacing, Two), zk)

\* C6 as stated: for positions z < z' beyond max(R, s/2) the magnitude of
\* the field at z' is strictly below the magnitude at z.
C6_AsStated ==
    (Called /\ C6_Domain) =>
        \A i, j \in 1..Len(args.z_range) :
            (C6_Beyond(args.z_range[i])
             /\ FLess(args.z_range[i], args.z_range[j]))
                => FLess(FAbs(ret.bz[j]), FAbs(ret.bz[i]))

\* C6 amended: for positions z < z' beyond max(R, s/2) the magnitude of the
\* field at z' is at most the magnitude at z.
C6_NonIncreasing ==
    (Called /\ C6_Domain) =>
        \A i, j \in 1..Len(args.z_range) :
            (C6_Beyond(args.z_range[i])
             /\ FLess(args.z_range[i], args.z_range[j]))
                => FLeq(FAbs(ret.bz[j]), FAbs(ret.bz[i]))

C6_Witness ==
    /\ Called
    /\ C6_Domain
    /\ args.z_range = far_grid
    /\ \E i, j \in 1..Len(args.z_range) :
         /\ C6_Beyond(args.z_range[i])
         /\ FLess(args.z_range[i], args.z_range[j])
         /\ ret.bz[j] = ret.bz[i]

\* The whole part of t >= 0.
WholePart(t) ==
    CHOOSE n \in 0..(MaxTurns + 1) :
        FLeq(FromInt(n), t) /\ FLess(t, FromInt(n + 1))

\* total_bz with the radius negated.
NegatedRadius ==
    total_bz(args.z_range, args.spacing, args.turns, FNeg(args.R), args.I).bz

Idle == pc = "idle"

sliders_val ==
    sliders_now(spacing_slider, turns_slider, radius_slider, current_slider)

\* C2: once a reset has been handled, the parameters are spacing 0.1, turns
\* 10, radius 0.05, current 1.0 and the displayed curve is the curve computed
\* at start-up, sample for sample.
C2_ResetRestores ==
    (Idle /\ last = "reset") =>
        /\ params = [spacing |-> Lit(1, 10), turns |-> FromInt(10),
                     R |-> Lit(5, 100), I |-> FromInt(1)]
        /\ field_line = bz

\* A reset handled after all four sliders had been moved.
C2_Witness ==
    /\ Idle
    /\ last = "reset"
    /\ resetCalls = 4

Between(lo, x, hi) == FLeq(lo, x) /\ FLeq(x, hi)

InRange(p) ==
    /\ Between(Lit(1, 100), p.spacing, Lit(2, 10))
    /\ IsWhole(p.turns)
    /\ Between(FromInt(1), p.turns, FromInt(50))
    /\ Between(Lit(1, 100), p.R, Lit(1, 10))
    /\ Between(Lit(1, 10), p.I, FromInt(10))

\* C7: the parameters handed to total_bz always have spacing in [0.01, 0.20],
\* turns whole in [1, 50], radius in [0.01, 0.10] and current in [0.1, 10.0],
\* so never spacing <= 0, radius <= 0 or turns < 1.
C7_ParamsInRange ==
    /\ InRange(params)
    /\ InRange(lastCall.args)
    /\ FLess(Zero, lastCall.args.spacing)
    /\ FLess(Zero, lastCall.args.R)
    /\ FLeq(One, lastCall.args.turns)

\* Calls made with values the sliders clipped to their ranges' ends.
C7_Witness ==
    /\ lastCall.by = "update"
    /\ lastCall.args.spacing = Lit(1, 100)
    /\ lastCall.args.turns = FromInt(50)
    /\ lastCall.args.R = Lit(1, 100)
    /\ lastCall.args.I = FromInt(10)

\* C8: a call of total_bz leaves the grid as it was, so the session grid is
\* the same sequence in every reachable state, and a call with the start-up
\* parameters returns the start-up curve whatever was called in between.
C8_PureFunction ==
    /\ z = linspace(FNeg(Lit(2, 10)), Lit(2, 10), NumPoints)
    /\ lastCall.args = init_params => field_line = bz

\* The start-up parameters passed again after other calls.
C8_Witness ==
    /\ lastCall.by = "update"
    /\ lastCall.args = init_params
    /\ resetCalls = 4

\* C9: when a slider change or a reset has been handled, params holds the
\* four sliders' values and the displayed curve is total_bz(z, params); every
\* call made by update, those made one after another during a reset too,
\* gets the four values the sliders have at that moment.
C9_SnapshotConsistent ==
    /\ Idle => /\ params = sliders_val
               /\ field_line = call_total_bz(z, params).bz
    /\ lastCall.by = "update" => lastCall.args = lastCall.sliders

\* In the middle of a reset, after two of its update calls, with a slider
\* still to be reset.
C9_Witness ==
    /\ pc = "reset_radius"
    /\ resetCalls = 2
    /\ lastCall.by = "update"
    /\ radius_slider # radius_cfg.valinit
    /\ current_slider # current_cfg.valinit

====
